---- MODULE Spec2Model ----
(***************************************************************************)
(* A model of the CPBL coach dashboard (app/main.py, app/scrapers,         *)
(* app/models): the snapshot cache of BaseballCoach.load_data, the fetch   *)
(* cycle over the six team codes, and the statistics query engine of       *)
(* PlayerStats with its one-hour cache.                                    *)
(*                                                                         *)
(* Time is counted in minutes.  A Streamlit script run (main()) builds a   *)
(* new BaseballCoach, whose constructor calls load_data, and then shows    *)
(* main_page, whose button calls load_data a second time.                  *)
(***************************************************************************)
EXTENDS Integers, Sequences, FiniteSets, TLC

VARIABLES
    clock,       \* datetime.now(), in minutes
    site,        \* version of the content the remote site currently serves
    data_path,   \* the snapshot file data/baseball_data.json
    persisted,   \* the dataset handed to json.dump by the last save (history)
    data,        \* BaseballCoach.data
    pc,          \* position of the script run
    idx,         \* position of the team loop of load_data
    trigger,     \* who called load_data: "init" (__init__) or "button"
    outcome,     \* how the last load_data ended
    prev,        \* self.data as it was when load_data was entered (history)
    calls,       \* the remote fetches of the current load_data, in order (history)
    cache,       \* st.cache_data store of PlayerStats._cached_fetch
    variant,     \* the query, besides the base query, that this session asks
    sent,        \* per query, the last HTTP request fetch_player_stats sent (history)
    last,        \* the last get_cached_stats call and what it returned (history)
    view,        \* what player_search showed for the last search
    frame,       \* filtered_df of player_search: the rows that passed the filters
    shown,       \* the last sort of player_search: its field and the rows displayed
    games,       \* the game elements of the schedule page fetch_head_to_head reads
    head_to_head,\* the mapping fetch_head_to_head returned for them
    debug,       \* the debug HTML file of each team code
    attempt,     \* the last fetch_team_data call and how it ended (history)
    kb,          \* the loaded dataset handed to initialize_knowledge of the assistant
    asked,       \* the last question put to the assistant (history)
    reply,       \* what query returned for it
    other,       \* a second session that is at the save of its own fetch cycle
    table,       \* the rows of the table of the standings page
    standings,   \* what fetch_standings returned for them
    venue_stats, \* what fetch_venue_stats returned for them
    recent_games,\* what fetch_recent_games returned for the schedule page
    filter_data, \* the team records handed to filter_by_position
    filtered,    \* the question it was called with and what came of it
    player_items,\* the player items of one roster section of a team page
    roster,      \* the extractor that read them and the sequence it produced
    current_team_code, \* CPBLScraper.current_team_code of the one cached scraper
    sessions,    \* per session, its call of fetch_team_data on that scraper
    session_state, \* st.session_state of player_search: search_performed, search_result
    display      \* what the last run of player_search showed, and for which selection

loadVars == <<site, data_path, persisted, data, pc, idx, trigger, outcome, prev, calls>>
statVars == <<cache, variant, sent, last, view>>
sortVars == <<frame, shown>>
h2hVars == <<games, head_to_head>>
fetchVars == <<debug, attempt>>
llmVars == <<kb, asked, reply>>
tableVars == <<table, standings, venue_stats>>
filterVars == <<filter_data, filtered>>
rosterVars == <<player_items, roster>>
scraperVars == <<current_team_code, sessions>>
searchVars == <<session_state, display>>
moreVars == <<tableVars, recent_games, filterVars, rosterVars, scraperVars, searchVars>>
extVars == <<sortVars, h2hVars, fetchVars, llmVars, other, moreVars>>
vars == <<clock, loadVars, statVars, extVars>>

----------------------------------------------------------------------------
(* Bounds of the model *)

MaxTicks == 2
MaxSite == 2
MaxRows == 2
MaxFrame == 2
MaxStat == 1
MaxGames == 2
MaxDate == 2
MaxPage == 11
MaxRoster == 2

(* Program constants *)

\* timedelta(hours=1), in minutes
FreshnessMinutes == 60
\* st.cache_data(ttl=3600), in minutes
TtlMinutes == 60
\* the [:10] of fetch_head_to_head
KeptGames == 10

\* the step of the clock: half the freshness threshold
Tick == FreshnessMinutes \div 2

MaxClock == MaxTicks * Tick

----------------------------------------------------------------------------
(* Datasets: Python dicts with string keys *)

EmptyDict == <<>>

Truthy(d) == DOMAIN d # {}

Put(d, k, v) == [x \in (DOMAIN d) \cup {k} |-> IF x = k THEN v ELSE d[x]]

\* dict.get(key, default)
Get(d, key, default) == IF key \in DOMAIN d THEN d[key] ELSE default

\* the team codes in sorted order instead of the order of the literal
team_ids_Sorted == <<"AAA", "ACN", "ADD", "AEO", "AJL", "AKP">>

\* the keys of team_ids, in the order the dict literal gives them
team_ids == <<"ACN", "ADD", "AJL", "AEO", "AAA", "AKP">>

Teams == {team_ids[i] : i \in 1..Len(team_ids)}

----------------------------------------------------------------------------
(* The snapshot file and its JSON text *)

\* json.dump: the document as its set of key/value members
json_dump(d) == {<<k, d[k]>> : k \in DOMAIN d}

\* json.load of a well-formed document
json_load(text) == [k \in {m[1] : m \in text} |-> (CHOOSE m \in text : m[1] = k)[2]]

NoFile == [exists |-> FALSE, mtime |-> 0, bytes |-> "none", text |-> {}]

\* a file whose bytes decode as UTF-8 but are not a JSON document
BadJsonFile(t) == [exists |-> TRUE, mtime |-> t, bytes |-> "bad_json", text |-> {}]

\* a file whose bytes are not valid UTF-8 (a document cut inside a character)
BadUtf8File(t) == [exists |-> TRUE, mtime |-> t, bytes |-> "bad_utf8", text |-> {}]

WrittenFile(d, t) == [exists |-> TRUE, mtime |-> t, bytes |-> "json", text |-> json_dump(d)]

\* open(data_path, 'r', encoding='utf-8') followed by json.load(f)
ReadJson(f) ==
    CASE f.bytes = "json"     -> [status |-> "ok", value |-> json_load(f.text)]
      [] f.bytes = "bad_json" -> [status |-> "JSONDecodeError", value |-> EmptyDict]
      [] OTHER                -> [status |-> "UnicodeDecodeError", value |-> EmptyDict]

\* the comparison of the age turned around
IsFresh_AgeInverted(f, now) == f.exists /\ (now - f.mtime) > FreshnessMinutes

\* file_age < timedelta(hours=1)
IsFresh(f, now) == f.exists /\ (now - f.mtime) < FreshnessMinutes

----------------------------------------------------------------------------
(* The scraper *)

HttpOutcomes == {"ok", "conn_error", "http_error"}

\* Python's None, where a dict is expected
None == [none |-> TRUE]

\* team_established_years of _parse_team_info
team_established_years ==
    [ACN |-> "1990", ADD |-> "1990", AJL |-> "2003", AEO |-> "1993", AAA |-> "1990", AKP |-> "2023"]

\* whether the page has the div of class TeamBrief (here: the pages of the odd
\* versions of the site have it, those of the even versions do not)
HasTeamBrief(soup) == soup[2] % 2 = 1

\* the dd items of the TeamBrief section, each with its label and its desc; the
\* order of the labels differs from page to page (here: with the version).  The
\* labels are written "home_field" (contains '主球場'), "head_coach" (contains
\* '總教練') and "website" (contains neither)
BriefItems(soup) ==
    IF soup[2] % 4 = 1
    THEN << [label |-> "home_field", desc |-> <<"home", soup>>],
            [label |-> "head_coach", desc |-> <<"coach", soup>>] >>
    ELSE << [label |-> "head_coach", desc |-> <<"coach", soup>>],
            [label |-> "website", desc |-> <<"website", soup>>],
            [label |-> "home_field", desc |-> <<"home", soup>>] >>

RECURSIVE ReadItems(_, _, _)
\* the loop over the dd items i..Len(items): the label decides the field
ReadItems(items, i, info) ==
    IF i > Len(items) THEN info
    ELSE ReadItems(items, i + 1,
            IF items[i].label = "home_field" THEN Put(info, "home", items[i].desc)
            ELSE IF items[i].label = "head_coach" THEN Put(info, "coach", items[i].desc)
            ELSE info)

\* the info dict _parse_team_info builds with current_team_code = team: empty
\* without the TeamBrief section, else name, established and the labelled items
team_info_of(team, soup) ==
    IF HasTeamBrief(soup)
    THEN ReadItems(BriefItems(soup), 1,
                   [name |-> soup, established |-> team_established_years[team]])
    ELSE EmptyDict

\* _parse_team_info with current_team_code = team: info is filled from the
\* TeamBrief section, but the only return statement of the function is the one
\* of the except branch, so a call that does not raise returns None
parse_team_info(team, soup) ==
    LET info == team_info_of(team, soup)
    IN None

\* the record fetch_team_data builds from the page of ClubNo=team
TeamRecord(team, version) ==
    [page |-> <<team, version>>, team_info |-> parse_team_info(team, <<team, version>>)]

\* fetch_team_data: returns the record (never an empty value), or raises on a
\* failed request (requests.get raising, or raise_for_status on a non-2xx status)
fetch_team_data(team, http, version) ==
    IF http = "ok"
    THEN [raised |-> FALSE, value |-> TeamRecord(team, version)]
    ELSE [raised |-> TRUE, value |-> EmptyDict]

\* response.text of the request for ClubNo=team: the team page, or the error
\* page of a non-2xx status
Document(team, http, version) == [status |-> http, page |-> <<team, version>>]

\* the debug file is written after raise_for_status
debug_file_after_StatusFirst(files, team, http, version) ==
    IF http = "ok" THEN Put(files, team, Document(team, http, version)) ELSE files

\* the debug files after fetch_team_data(team): requests.get, then
\* open(debug_file, 'w') and f.write(response.text), then raise_for_status; a
\* request that raises (no response) never reaches the write
debug_file_after(files, team, http, version) ==
    IF http = "conn_error" THEN files ELSE Put(files, team, Document(team, http, version))

\* the team codes whose debug files are followed
FetchTeams == {"ACN", "AKP"}

\* one call of fetch_team_data, with the debug file it leaves
fetch_team_data_call ==
    /\ pc = "idle"
    /\ \E team \in FetchTeams, http \in HttpOutcomes :
          /\ debug' = debug_file_after(debug, team, http, site)
          /\ attempt' = [team |-> team, http |-> http, version |-> site,
                          raised |-> fetch_team_data(team, http, site).raised]
    /\ UNCHANGED <<clock, loadVars, statVars, sortVars, h2hVars, llmVars, other, moreVars>>

H2hOutcomes == {"games", "no_games", "conn_error", "http_error"}

\* fetch_head_to_head: the mapping of pair keys to games, {} on any failure
fetch_head_to_head(http, version) ==
    IF http = "games" THEN [games |-> version] ELSE EmptyDict

\* the order of Python's str comparison on the six team codes
CodeRank == [AAA |-> 1, ACN |-> 2, ADD |-> 3, AEO |-> 4, AJL |-> 5, AKP |-> 6]

\* the None of team_mapping.get, where a team code is expected
NoId == "None"

\* _get_team_id: the code of a team name of team_mapping, None for any other
\* text (a team name of the page is written here as the code it maps to)
get_team_id(team_name) == IF team_name \in Teams THEN team_name ELSE NoId

\* the key with the home team first
pair_key_HomeFirst(home_id, away_id) == <<home_id, away_id>>

\* f"{min(home_id, away_id)}_{max(home_id, away_id)}", as the pair of its two codes
pair_key(home_id, away_id) ==
    IF CodeRank[home_id] <= CodeRank[away_id]
    THEN <<home_id, away_id>>
    ELSE <<away_id, home_id>>

\* the game elements of the schedule page: the two team texts, of three of the
\* teams or of none, and the date (the score text plays no part in the key and
\* is left out)
PageTeams == {"AAA", "ACN", "AKP", "unlisted"}

GameElements == [home : PageTeams, away : PageTeams, date : 1..MaxDate]

RECURSIVE CollectGames(_, _, _)
\* the loop over the game elements i..Len(page): a game whose two teams are
\* known is appended to the list of its key, any other is passed over
CollectGames(page, i, d) ==
    IF i > Len(page) THEN d
    ELSE LET home_id == get_team_id(page[i].home)
             away_id == get_team_id(page[i].away)
         IN IF home_id # NoId /\ away_id # NoId
            THEN LET key == pair_key(home_id, away_id)
                     old == IF key \in DOMAIN d THEN d[key] ELSE <<>>
                 IN CollectGames(page, i + 1, Put(d, key, Append(old, page[i])))
            ELSE CollectGames(page, i + 1, d)

RECURSIVE NewestFirst(_)
\* sorted(list, key=date, reverse=True): a stable sort, newest first
NewestFirst(list) ==
    IF list = <<>> THEN <<>>
    ELSE LET n == Len(list)
             rest == NewestFirst(SubSeq(list, 1, n - 1))
             k == Cardinality({j \in 1..Len(rest) : rest[j].date >= list[n].date})
         IN SubSeq(rest, 1, k) \o <<list[n]>> \o SubSeq(rest, k + 1, Len(rest))

\* the list is not cut
FirstN_All(list, n) == list

\* list[:n]
FirstN(list, n) == SubSeq(list, 1, IF Len(list) < n THEN Len(list) ELSE n)

\* the mapping fetch_head_to_head returns for a schedule page
head_to_head_of(page) ==
    LET d == CollectGames(page, 1, EmptyDict)
    IN [key \in DOMAIN d |-> FirstN(NewestFirst(d[key]), KeptGames)]

\* fetch_head_to_head on the schedule page: {} when the request fails
fetch_head_to_head_page ==
    /\ head_to_head.http = "none"
    /\ \E http \in HttpOutcomes :
          head_to_head' = [http |-> http,
                           value |-> IF http = "ok" THEN head_to_head_of(games) ELSE EmptyDict]
    /\ UNCHANGED <<clock, loadVars, statVars, sortVars, games, fetchVars, llmVars, other, moreVars>>

----------------------------------------------------------------------------
(* The standings page: fetch_standings and fetch_venue_stats *)

\* the team texts of the rows: two of the team names, and a text that is none
TableTeams == {"ACN", "AKP", "unlisted"}

\* the shapes of a row: complete; without the rank div; without the team div;
\* with a number cell that int() cannot read; with a home record of "0-0"
RowShapes == {"ok", "no_rank", "no_team_div", "bad_number", "zero_games"}

TableRows == [team : TableTeams, shape : RowShapes]

Tables == UNION {[1..n -> TableRows] : n \in 0..MaxRows}

RECURSIVE ReadStandings(_, _, _)
\* the loop of fetch_standings over the rows i..Len(rows), each row in its own
\* try: a row without the team div or with an unlisted team is passed over, a
\* row whose number raises is left (except: continue), a missing rank is 0
ReadStandings(rows, i, d) ==
    IF i > Len(rows) THEN d
    ELSE LET row == rows[i]
             team_id == IF row.shape = "no_team_div" THEN NoId ELSE get_team_id(row.team)
         IN IF team_id = NoId \/ row.shape = "bad_number"
            THEN ReadStandings(rows, i + 1, d)
            ELSE ReadStandings(rows, i + 1,
                    Put(d, team_id, [rank |-> IF row.shape = "no_rank" THEN 0 ELSE i,
                                     row |-> i]))

\* fetch_standings on the table: {} when the request fails
fetch_standings_of(http, rows) ==
    IF http = "ok" THEN ReadStandings(rows, 1, EmptyDict) ELSE EmptyDict

\* whether the body of the row loop of fetch_venue_stats raises on the row:
\* .find('a') on a missing team div, and for a listed team int() on an
\* unreadable cell or the division by wins + losses = 0
VenueRowRaises(row) ==
    \/ row.shape = "no_team_div"
    \/ /\ get_team_id(row.team) # NoId
       /\ row.shape \in {"bad_number", "zero_games"}

RECURSIVE ReadVenue(_, _, _)
\* the loop of fetch_venue_stats over the rows i..Len(rows): no try inside the
\* loop, so a row that raises ends the function in its outer handler
ReadVenue(rows, i, d) ==
    IF i > Len(rows) THEN [raised |-> FALSE, value |-> d]
    ELSE IF VenueRowRaises(rows[i]) THEN [raised |-> TRUE, value |-> d]
    ELSE IF get_team_id(rows[i].team) = NoId THEN ReadVenue(rows, i + 1, d)
    ELSE ReadVenue(rows, i + 1, Put(d, get_team_id(rows[i].team), [row |-> i]))

\* fetch_venue_stats on the table: {} when the request fails or a row raises
fetch_venue_stats_of(http, rows) ==
    IF http = "ok" /\ ~ReadVenue(rows, 1, EmptyDict).raised
    THEN ReadVenue(rows, 1, EmptyDict).value
    ELSE EmptyDict

NotFetched == [http |-> "none", value |-> EmptyDict]

\* _update_live_data: fetch_standings on the page
fetch_standings ==
    /\ standings = NotFetched
    /\ \E http \in HttpOutcomes :
          standings' = [http |-> http, value |-> fetch_standings_of(http, table)]
    /\ UNCHANGED <<clock, loadVars, statVars, sortVars, h2hVars, fetchVars, llmVars, other,
                   table, venue_stats, recent_games, filterVars, rosterVars, scraperVars, searchVars>>

\* _update_live_data: fetch_venue_stats on the page
fetch_venue_stats ==
    /\ venue_stats = NotFetched
    /\ \E http \in HttpOutcomes :
          venue_stats' = [http |-> http, value |-> fetch_venue_stats_of(http, table)]
    /\ UNCHANGED <<clock, loadVars, statVars, sortVars, h2hVars, fetchVars, llmVars, other,
                   table, standings, recent_games, filterVars, rosterVars, scraperVars, searchVars>>

----------------------------------------------------------------------------
(* The schedule page: fetch_recent_games *)

\* the score texts of a game element: home runs, ':', away runs; "x" is a text
\* that is not two numbers
Scores == {"2:1", "1:2", "1:1", "x"}

\* score.split(':') and int() of the two parts: <<>> where there are not two
\* parts or int() raises
int_scores(score) ==
    CASE score = "2:1" -> <<2, 1>>
      [] score = "1:2" -> <<1, 2>>
      [] score = "1:1" -> <<1, 1>>
      [] OTHER -> <<>>

\* the game elements of a short page, with the score text
ScoredGames ==
    {[home |-> p[1], away |-> p[2], date |-> d, score |-> sc] :
        p \in {<<"ACN", "AKP">>, <<"AKP", "ACN">>, <<"ACN", "unlisted">>},
        d \in 1..MaxDate, sc \in Scores}

\* a long page: n games of ACN against AKP on the days 1..n, listed from day
\* k + 1 on and around
RotatedPage(n, k) ==
    [i \in 1..n |-> [home |-> "ACN", away |-> "AKP", date |-> ((i + k - 1) % n) + 1,
                     score |-> "2:1"]]

SchedulePages ==
    UNION {[1..n -> ScoredGames] : n \in 0..MaxGames}
    \cup {RotatedPage(n, k) : n \in KeptGames..MaxPage, k \in 0..MaxPage - 1}

\* the 'result' of the home team's entry
home_result(home_score, away_score) == IF home_score > away_score THEN "W" ELSE "L"

\* the 'result' of the away team's entry: the other letter
away_result(home_score, away_score) == IF home_score > away_score THEN "L" ELSE "W"

RECURSIVE CollectRecent(_, _, _)
\* the loop of fetch_recent_games over the game elements i..Len(page): a game
\* of two listed teams with a readable score is appended to the list of the
\* home team and, with the other result, to the list of the away team
CollectRecent(page, i, d) ==
    IF i > Len(page) THEN d
    ELSE LET home_id == get_team_id(page[i].home)
             away_id == get_team_id(page[i].away)
             scores == int_scores(page[i].score)
         IN IF home_id # NoId /\ away_id # NoId /\ scores # <<>>
            THEN LET game_data == [date |-> page[i].date,
                                   result |-> home_result(scores[1], scores[2]),
                                   score |-> scores]
                     away_game_data == [game_data EXCEPT
                                          !.result = away_result(scores[1], scores[2])]
                     d1 == Put(d, home_id, Append(Get(d, home_id, <<>>), game_data))
                 IN CollectRecent(page, i + 1,
                       Put(d1, away_id, Append(Get(d1, away_id, <<>>), away_game_data)))
            ELSE CollectRecent(page, i + 1, d)

\* the mapping fetch_recent_games returns for a schedule page
recent_games_of(page) ==
    LET d == CollectRecent(page, 1, EmptyDict)
    IN [team_id \in DOMAIN d |-> FirstN(NewestFirst(d[team_id]), KeptGames)]

\* fetch_recent_games on the schedule page: {} when the request fails
fetch_recent_games ==
    /\ recent_games = NotFetched
    /\ \E http \in HttpOutcomes :
          recent_games' = [http |-> http,
                           value |-> IF http = "ok" THEN recent_games_of(games) ELSE EmptyDict]
    /\ UNCHANGED <<clock, loadVars, statVars, sortVars, h2hVars, fetchVars, llmVars, other,
                   tableVars, filterVars, rosterVars, scraperVars, searchVars>>

----------------------------------------------------------------------------
(* BaseballCoach.load_data *)

\* the cycle fills the dataset it finds instead of a new one
CycleStartData_Kept(d) == d

\* self.data = {} at the start of a fetch cycle
CycleStartData(d) == EmptyDict

\* the body of the team loop: store the record of a successful fetch
StoreTeam(d, team, res) ==
    IF ~res.raised /\ Truthy(res.value) THEN Put(d, team, res.value) ELSE d

\* a failed fetch ends the loop instead of going on to the next team
LoopNext_BreakOnError(i, res) == IF i = Len(team_ids) \/ res.raised THEN "h2h" ELSE "teams"

\* where the loop goes after one team: on to the next team whether or not the
\* fetch raised (continue), and to the head-to-head fetch after the last team
LoopNext(i, res) == IF i = Len(team_ids) THEN "h2h" ELSE "teams"

\* if head_to_head: self.data['head_to_head'] = head_to_head
StoreHeadToHead(d, h) == IF Truthy(h) THEN Put(d, "head_to_head", h) ELSE d

\* if self.data: json.dump(self.data, f)
SaveSnapshot(f, d, now) == IF Truthy(d) THEN WrittenFile(d, now) ELSE f

CallEntry(target, ok, value) == [target |-> target, ok |-> ok, value |-> value]

\* main(): app = BaseballCoach(); the constructor sets self.data = {} and calls load_data
Rerun ==
    /\ pc = "idle"
    /\ data' = EmptyDict
    /\ trigger' = "init"
    /\ pc' = "load"
    /\ UNCHANGED <<clock, site, data_path, persisted, idx, outcome, prev, calls, statVars, extVars>>

\* load_data up to the start of the team loop
load_data_start ==
    /\ pc = "load"
    /\ calls' = <<>>
    /\ prev' = data
    /\ IF IsFresh(data_path, clock)
       THEN LET r == ReadJson(data_path) IN
            CASE r.status = "ok" ->
                    /\ data' = r.value
                    /\ outcome' = "fresh"
                    /\ pc' = "ret"
                    /\ UNCHANGED <<data_path, persisted, idx>>
              [] r.status = "JSONDecodeError" ->
                    /\ data_path' = NoFile
                    /\ persisted' = EmptyDict
                    /\ data' = CycleStartData(data)
                    /\ idx' = 1
                    /\ outcome' = "running"
                    /\ pc' = "teams"
              [] OTHER ->
                    /\ outcome' = "raised"
                    /\ pc' = "ret"
                    /\ UNCHANGED <<data_path, persisted, data, idx>>
       ELSE /\ data' = CycleStartData(data)
            /\ idx' = 1
            /\ outcome' = "running"
            /\ pc' = "teams"
            /\ UNCHANGED <<data_path, persisted>>
    /\ UNCHANGED <<clock, site, trigger, statVars, extVars>>

\* one iteration of the team loop (the debug file that the call leaves behind is
\* followed for single calls, in fetch_team_data_call)
load_data_fetch_team ==
    /\ pc = "teams"
    /\ \E http \in HttpOutcomes :
          LET team == team_ids[idx]
              res == fetch_team_data(team, http, site)
          IN /\ data' = StoreTeam(data, team, res)
             /\ calls' = Append(calls, CallEntry(team, ~res.raised, res.value))
             /\ pc' = LoopNext(idx, res)
    /\ idx' = idx + 1
    /\ UNCHANGED <<clock, site, data_path, persisted, trigger, outcome, prev, statVars, extVars>>

\* the head-to-head fetch after the loop
load_data_head_to_head ==
    /\ pc = "h2h"
    /\ \E http \in H2hOutcomes :
          LET h == fetch_head_to_head(http, site)
          IN /\ data' = StoreHeadToHead(data, h)
             /\ calls' = Append(calls, CallEntry("head_to_head", Truthy(h), h))
    /\ pc' = "save"
    /\ UNCHANGED <<clock, site, data_path, persisted, idx, trigger, outcome, prev, statVars, extVars>>

\* the save at the end of the cycle, and the return
load_data_save ==
    /\ pc = "save"
    /\ data_path' = SaveSnapshot(data_path, data, clock)
    /\ persisted' = IF Truthy(data) THEN data ELSE persisted
    /\ outcome' = "cycle"
    /\ pc' = "ret"
    /\ UNCHANGED <<clock, site, data, idx, trigger, prev, calls, statVars, extVars>>

\* after the constructor: main_page, whose button (when it was clicked) calls
\* load_data again; the script run then ends and its BaseballCoach object is dropped
main_page ==
    /\ pc = "ret"
    /\ \/ /\ trigger = "init"
          /\ trigger' = "button"
          /\ pc' = "load"
          /\ UNCHANGED <<data, outcome, prev, calls>>
       \/ /\ pc' = "idle"
          /\ data' = EmptyDict
          /\ outcome' = "none"
          /\ prev' = EmptyDict
          /\ calls' = <<>>
          /\ UNCHANGED trigger
    /\ UNCHANGED <<clock, site, data_path, persisted, idx, statVars, extVars>>

----------------------------------------------------------------------------
(* The save of load_data in a second session (Streamlit runs the script of each
   session in a thread of its own), step by step: open(data_path, 'w'), the
   writes of json.dump, and the close at the end of the with block *)

\* the datasets the second session has fetched: all six teams, of a version of
\* the site, with head_to_head
OtherDatasets ==
    {[k \in Teams \cup {"head_to_head"} |->
         IF k = "head_to_head" THEN fetch_head_to_head("games", v) ELSE TeamRecord(k, v)] :
     v \in 1..MaxSite}

\* open(data_path, 'w'): the file is created or cut to no bytes, in place
other_save_open ==
    /\ other.pc = "save"
    /\ Truthy(other.data)
    /\ data_path' = BadJsonFile(clock)
    /\ other' = [other EXCEPT !.pc = "writing", !.file = BadJsonFile(clock)]
    /\ UNCHANGED <<clock, site, persisted, data, pc, idx, trigger, outcome, prev, calls,
                   statVars, sortVars, h2hVars, fetchVars, llmVars, moreVars>>

\* json.dump has written the first part of the document: the bytes on disk end
\* anywhere, inside a character too.  After an unlink of the path the bytes go
\* to the file that was opened, which no path names any more
other_save_write ==
    /\ other.pc = "writing"
    /\ \E part \in {BadJsonFile(clock), BadUtf8File(clock)} :
          /\ data_path' = IF data_path = other.file THEN part ELSE data_path
          /\ other' = [other EXCEPT !.pc = "closing",
                                    !.file = IF data_path = other.file THEN part ELSE NoFile]
    /\ UNCHANGED <<clock, site, persisted, data, pc, idx, trigger, outcome, prev, calls,
                   statVars, sortVars, h2hVars, fetchVars, llmVars, moreVars>>

\* the rest of the document and the close
other_save_close ==
    /\ other.pc = "closing"
    /\ IF data_path = other.file /\ other.file # NoFile
       THEN /\ data_path' = WrittenFile(other.data, clock)
            /\ persisted' = other.data
       ELSE UNCHANGED <<data_path, persisted>>
    /\ other' = [other EXCEPT !.pc = "done", !.file = NoFile]
    /\ UNCHANGED <<clock, site, data, pc, idx, trigger, outcome, prev, calls,
                   statVars, sortVars, h2hVars, fetchVars, llmVars, moreVars>>

----------------------------------------------------------------------------
(* PlayerStats: the statistics query engine *)

\* (year, position, record_type, active, defence_type), as player_search passes them
BaseQuery == <<2024, "01", "A", "01", "99">>

\* the base query and, for each field, a query that differs in that field alone
Queries ==
    { BaseQuery,
      <<2023, "01", "A", "01", "99">>,
      <<2024, "02", "A", "01", "99">>,
      <<2024, "01", "C", "01", "99">>,
      <<2024, "01", "A", "02", "99">>,
      <<2024, "01", "A", "01", "2">> }

\* the tr elements of a response: a well-formed player row, a row without the
\* player-name element, a row with too few cells
RowKinds == {"good", "noname", "short"}

RowSeqs == UNION {[1..n -> RowKinds] : n \in 0..MaxRows}

\* a response document: with or without the div of class RecordTable
Bodies == {[table |-> FALSE, rows |-> <<>>]} \cup {[table |-> TRUE, rows |-> r] : r \in RowSeqs}

\* the outcome of requests.post and raise_for_status
StatHttp ==
    {[kind |-> k, body |-> [table |-> FALSE, rows |-> <<>>]] : k \in {"conn_error", "timeout", "http_error"}}
    \cup {[kind |-> "ok", body |-> b] : b \in Bodies}

\* the keys of the 'stats' dict _parse_table builds for a row: the batting
\* columns, whatever the position of the query
StatKeys ==
    {"avg", "games", "pa", "ab", "runs", "rbi", "hits", "singles", "doubles",
     "triples", "hr", "tb", "xbh", "bb", "so", "sb", "cs", "obp", "slg", "ops"}

RECURSIVE ParseRows(_, _)
\* the row loop of _parse_table over rows i..Len(rows): one player per well-formed
\* row; a row without a name is skipped, a row that raises is skipped
ParseRows(rows, i) ==
    IF i > Len(rows) THEN <<>>
    ELSE IF rows[i] = "good"
         THEN <<[name |-> i, stats |-> StatKeys]>> \o ParseRows(rows, i + 1)
         ELSE ParseRows(rows, i + 1)

\* _parse_table: no table gives the empty list; the first tr is the header
parse_table(body) == IF ~body.table THEN <<>> ELSE ParseRows(body.rows, 2)

\* raise_for_status not covered by the handler: a non-2xx status escapes
fetch_player_stats_StatusEscapes(q, http, now) ==
    IF http.kind = "ok"
    THEN [success |-> TRUE, data |-> parse_table(http.body), timestamp |-> now]
    ELSE IF http.kind = "http_error"
         THEN [raised |-> "HTTPError"]
         ELSE [success |-> FALSE,
               error |-> <<"network_request_error", http.kind>>,
               timestamp |-> now]

\* fetch_player_stats: the result dict
fetch_player_stats(q, http, now) ==
    IF http.kind = "ok"
    THEN [success |-> TRUE, data |-> parse_table(http.body), timestamp |-> now]
    ELSE [success |-> FALSE,
          error |-> <<"network_request_error", http.kind>>,
          timestamp |-> now]

\* a key that leaves out defence_type
CacheKey_NoDefence(q) == <<q[1], q[2], q[3], q[4]>>

\* the key st.cache_data derives from the arguments of _cached_fetch
CacheKey(q) == q

\* an entry of the cache is served until ttl has passed since it was stored
CacheLive(c, k, now) == k \in DOMAIN c /\ (now - c[k].stored) < TtlMinutes

\* the keys of p['stats'] that the batter branch of player_search reads
BatterColumns == {"avg", "hits", "hr", "rbi", "obp", "slg", "ops", "sb", "so", "bb", "pa"}

\* the keys of p['stats'] that the pitcher branch of player_search reads with
\* p['stats'][key] ('whip' is read with .get and may be absent)
PitcherColumns == {"era", "w", "l", "hld", "sv", "ip", "so", "bb"}

\* the part of player_search after the search: the frame it builds from the
\* rows of a successful result, or the error it shows.  A row that lacks a key
\* the branch reads raises KeyError, and so does the team column of a frame
\* built from no rows; the handler around the branch shows the error.  An
\* exception of get_cached_stats itself would leave player_search
player_search_view(position, result) ==
    IF "success" \notin DOMAIN result
    THEN [kind |-> "raised", position |-> position, rows |-> <<>>]
    ELSE IF ~result.success
    THEN [kind |-> "fetch_failed", position |-> position, rows |-> <<>>]
    ELSE LET players == result.data
             columns == IF position = "01" THEN BatterColumns ELSE PitcherColumns
         IN IF players = <<>> \/ \E i \in 1..Len(players) : ~(columns \subseteq players[i].stats)
            THEN [kind |-> "error", position |-> position, rows |-> <<>>]
            ELSE [kind |-> "frame", position |-> position,
                  rows |-> [i \in 1..Len(players) |->
                               [name |-> players[i].name, columns |-> columns]]]

\* the search of player_search: get_cached_stats, served from the cache of
\* _cached_fetch or fetched and stored, and then the display of the result
get_cached_stats ==
    /\ pc = "idle"
    /\ \E q \in {BaseQuery, variant} :
          \/ /\ CacheLive(cache, CacheKey(q), clock)
             /\ last' = [query |-> q, result |-> cache[CacheKey(q)].value, hit |-> TRUE,
                         at |-> clock, http |-> "none", table |-> FALSE]
             /\ view' = player_search_view(q[2], cache[CacheKey(q)].value)
             /\ UNCHANGED <<cache, sent>>
          \/ /\ ~CacheLive(cache, CacheKey(q), clock)
             /\ \E http \in StatHttp :
                   LET res == fetch_player_stats(q, http, clock)
                   IN /\ cache' = Put(cache, CacheKey(q), [value |-> res, stored |-> clock])
                      /\ sent' = Put(sent, q, [at |-> clock, result |-> res])
                      /\ last' = [query |-> q, result |-> res, hit |-> FALSE,
                                  at |-> clock, http |-> http.kind, table |-> http.body.table]
                      /\ view' = player_search_view(q[2], res)
    /\ UNCHANGED <<clock, variant, loadVars, extVars>>

----------------------------------------------------------------------------
(* player_search: the sort of the rows that passed the filters *)

\* the options of the sort selectbox of each branch, each named by the key of
\* p['stats'] its column is built from
BatterSortFields == {"avg", "ops", "hr", "rbi", "hits", "obp", "slg"}

PitcherSortFields == {"era", "w", "hld", "sv", "so", "whip"}

SortFields(position) == IF position = "01" THEN BatterSortFields ELSE PitcherSortFields

\* only the earned-run average is sorted ascending
Ascending_EraOnly(position, sort_by) == position # "01" /\ sort_by \in {"era"}

\* the ascending argument of sort_values: False in the batter branch,
\* sort_by in ['防禦率', 'WHIP'] in the pitcher branch
Ascending(position, sort_by) == position # "01" /\ sort_by \in {"era", "whip"}

Perms(n) == {p \in [1..n -> 1..n] : \A i, j \in 1..n : i # j => p[i] # p[j]}

\* DataFrame.sort_values(by, ascending): the rows in the order of the one column;
\* the default sort is not stable, rows that tie come out in either order
sort_values(rows, by, ascending) ==
    LET n == Len(rows)
        InOrder(p) == \A i \in 1..(n - 1) :
                         IF ascending THEN rows[p[i]][by] <= rows[p[i + 1]][by]
                                      ELSE rows[p[i]][by] >= rows[p[i + 1]][by]
    IN {[i \in 1..n |-> rows[p[i]]] : p \in {q \in Perms(n) : InOrder(q)}}

\* a row of the frame: the value a in the first sort column of the branch and
\* the value b in every other sort column
FrameRow(position, a, b) ==
    [f \in SortFields(position) |->
        IF f = (IF position = "01" THEN "avg" ELSE "era") THEN a ELSE b]

FrameRows(position) == {FrameRow(position, a, b) : a \in 0..MaxStat, b \in 0..MaxStat}

FramesOf(position) ==
    {[position |-> position, rows |-> r] :
        r \in UNION {[1..n -> FrameRows(position)] : n \in 0..MaxFrame}}

Frames == FramesOf("01") \cup FramesOf("02")

\* the display of player_search: nothing is sorted when filtered_df is empty
player_search_sort ==
    /\ frame.rows # <<>>
    /\ \E sort_by \in SortFields(frame.position) :
          \E r \in sort_values(frame.rows, sort_by, Ascending(frame.position, sort_by)) :
             shown' = [sort_by |-> sort_by, rows |-> r]
    /\ UNCHANGED <<clock, loadVars, statVars, frame, h2hVars, fetchVars, llmVars, other, moreVars>>

----------------------------------------------------------------------------
(* BaseballLLM: the assistant, in its two versions *)

\* the team codes of the datasets the assistant is asked about
AskTeams == {"ACN", "AKP"}

\* the one player of the rosters
KnownPlayer == [name |-> "P1", number |-> "18", position |-> "pitcher"]

\* 'team_info' of a team record: None (what _parse_team_info returns), a dict
\* without a name, or the dict with name, home and coach (the name of a team is
\* written as its code)
TeamInfos(t) == {None, EmptyDict, [name |-> t, home |-> "H", coach |-> "C"]}

Rosters == {EmptyDict, [pitchers |-> <<KnownPlayer>>]}

AskRecords(t) == {[team_info |-> i, players |-> r] : i \in TeamInfos(t), r \in Rosters}

\* the datasets load_data can hand to initialize_knowledge: any of the team
\* codes, with or without head_to_head, and the empty one
LoadedDatasets ==
    UNION {{d \in [K -> UNION {AskRecords(t) : t \in AskTeams} \cup {[games |-> 1]}] :
               \A k \in K : IF k = "head_to_head" THEN d[k] = [games |-> 1]
                                                    ELSE d[k] \in AskRecords(k)} :
           K \in SUBSET (AskTeams \cup {"head_to_head"})}

\* a question, by the substrings the code looks for: a greeting word, the name
\* of a team, the name of the known player, an identity cue such as
\* "position", a roster keyword, the position keyword of the pitchers
Questions ==
    [greet : BOOLEAN, team : AskTeams \cup {"none"}, player : BOOLEAN,
     cue : BOOLEAN, roster : BOOLEAN, poskw : BOOLEAN]

Reply(kind) == [kind |-> kind, team |-> "none", listed |-> <<>>]

Raise(exc) == [kind |-> "raise", team |-> exc, listed |-> <<>>]

\* the handler around the body of query: the error message instead of the exception
Caught(r) == IF r.kind = "raise" THEN Reply("error") ELSE r

\* initialize_knowledge of app/models/baseball_llm.py: the records with the
\* missing fields filled in, and head_to_head always present
initialize_knowledge(baseball_data) ==
    LET d == [k \in DOMAIN baseball_data |->
                IF k = "head_to_head" THEN baseball_data[k]
                ELSE [team_info |-> Get(baseball_data[k], "team_info", [name |-> ""]),
                      players |-> Get(baseball_data[k], "players", EmptyDict)]]
    IN IF "head_to_head" \in DOMAIN d THEN d ELSE Put(d, "head_to_head", EmptyDict)

\* _find_team: the first team with an alias in the question whose record has a
\* team_info with a name; None when there is none
find_team(d, question) ==
    LET t == question.team
    IN IF /\ t # "none"
          /\ t \in DOMAIN d
          /\ Truthy(d[t])
          /\ Get(d[t], "team_info", EmptyDict) # None
          /\ Truthy(Get(d[t], "team_info", EmptyDict))
          /\ Get(d[t].team_info, "name", "") # ""
       THEN t
       ELSE NoId

\* the players a roster answer lists, each by name and number: the pitchers
\* (the other four categories hold no player in these datasets)
RosterLines(team_data) ==
    LET players == Get(Get(team_data, "players", EmptyDict), "pitchers", <<>>)
    IN [i \in 1..Len(players) |-> <<players[i].name, players[i].number>>]

\* query of app/models/baseball_llm.py
query(d, question) ==
    Caught(
        IF ~Truthy(d) THEN Reply("no_data")
        ELSE IF question.greet THEN Reply("greeting")
        ELSE LET team_id == find_team(d, question)
             IN IF team_id = NoId THEN Reply("ask_team")
                ELSE [kind |-> IF question.roster THEN "roster" ELSE "team_basic",
                      team |-> team_id,
                      listed |-> IF question.roster THEN RosterLines(d[team_id]) ELSE <<>>])

\* initialize_knowledge of baseball-main: the dataset as it is
bm_initialize_knowledge(baseball_data) == baseball_data

\* whether team_info['team_info']['name'] of extract_keywords raises for an item
NameRaises(value) ==
    \/ "team_info" \notin DOMAIN value
    \/ value.team_info = None
    \/ "name" \notin DOMAIN value.team_info

\* filter_data_by_keywords(extract_keywords(question)): the records of the
\* teams whose name is in the question
bm_relevant_data(d, question) ==
    [k \in {t \in DOMAIN d : d[t].team_info.name = question.team} |-> d[k]]

\* filter_by_position for the pitcher keyword: the teams that have a player
\* whose position holds the keyword
bm_filter_by_position(relevant) ==
    [k \in {t \in DOMAIN relevant :
                \E i \in 1..Len(Get(relevant[t].players, "pitchers", <<>>)) :
                   relevant[t].players.pitchers[i].position = "pitcher"} |-> relevant[k]]

\* query of baseball-main/app/models/baseball_llm.py; ollama is the outcome of
\* ollama.chat
bm_query(d, question, ollama) ==
    Caught(
        IF question.greet THEN Reply("greeting")
        ELSE IF \E k \in DOMAIN d : NameRaises(d[k]) THEN Raise("KeyError")
        ELSE LET relevant == bm_relevant_data(d, question)
                 relevant_data == IF question.poskw THEN bm_filter_by_position(relevant)
                                                    ELSE relevant
             IN IF ~Truthy(relevant_data) THEN Reply("fallback")
                ELSE IF ollama = "text"
                     THEN [kind |-> "llm_text", team |-> question.team, listed |-> <<>>]
                     ELSE Raise("ConnectionError"))

\* a question put to the assistant of app/models
query_app ==
    /\ \E question \in Questions :
          /\ asked' = [version |-> "app", question |-> question]
          /\ reply' = query(initialize_knowledge(kb), question)
    /\ UNCHANGED <<clock, loadVars, statVars, sortVars, h2hVars, fetchVars, kb, other, moreVars>>

\* a question put to the assistant of baseball-main
query_baseball_main ==
    /\ \E question \in Questions, ollama \in {"text", "unavailable"} :
          /\ asked' = [version |-> "baseball-main", question |-> question]
          /\ reply' = bm_query(bm_initialize_knowledge(kb), question, ollama)
    /\ UNCHANGED <<clock, loadVars, statVars, sortVars, h2hVars, fetchVars, kb, other, moreVars>>

----------------------------------------------------------------------------
(* filter_by_position of baseball-main/app/models/baseball_llm.py *)

\* Texts are written by what they contain.  The words of the list positions
\* that occur here: "pitcher" ('投手'), "coach" ('教練'), "head_coach"
\* ('總教練'), "pitching_coach" ('投手教練')
positions == {"pitcher", "coach", "head_coach", "pitching_coach"}

\* the synonym table, for the same words
synonyms ==
    [head_coach |-> {"first_team_head_coach", "head_coach"},
     pitching_coach |-> {"first_team_pitching_coach", "pitching_coach"},
     coach |-> {"first_team_coach", "coach", "chief_coach"}]

\* the 'position' texts of the roster entries, each as the set of the words
\* above that are substrings of it: '投手', '投手教練', '一軍總教練', and ''
PositionTexts ==
    {{"pitcher"},
     {"pitcher", "coach", "pitching_coach"},
     {"coach", "head_coach", "first_team_head_coach"},
     {}}

\* the questions, each as the set of the words that are substrings of it:
\* about '投手', '教練', '總教練', '投手教練'
PositionQuestions ==
    {{"pitcher"},
     {"coach"},
     {"coach", "head_coach"},
     {"pitcher", "coach", "pitching_coach"}}

\* any(pos in position for pos in positions if pos in question)
PositionMatches(position, question) == positions \cap question \cap position # {}

\* the keys of the synonym table for which the else branch appends the player
SynonymKeys(position, question) ==
    {key \in DOMAIN synonyms : synonyms[key] \cap position # {} /\ key \in question}

\* the categories of 'players', in the order fetch_team_data builds the dict
Categories == <<"coaches", "pitchers">>

RECURSIVE AppendTimes(_, _, _)
AppendTimes(list, player, n) ==
    IF n = 0 THEN list ELSE AppendTimes(Append(list, player), player, n - 1)

\* one player of the loop: acc.entry is filtered_data[team_id] (EmptyDict while
\* the team is not in filtered_data).  The entry is made with the category of
\* the first match only, so an append under another category is a KeyError
FilterPlayer(acc, team_info, category, player, question) ==
    LET n == IF PositionMatches(player.position, question) THEN 1
             ELSE Cardinality(SynonymKeys(player.position, question))
        entry == IF acc.entry = EmptyDict
                 THEN [team_info |-> team_info.team_info,
                       players |-> Put(EmptyDict, category, <<>>)]
                 ELSE acc.entry
    IN IF acc.raised \/ n = 0 THEN acc
       ELSE IF category \notin DOMAIN entry.players
            THEN [raised |-> TRUE, entry |-> entry]
            ELSE [raised |-> FALSE,
                  entry |-> [entry EXCEPT !.players[category] =
                                AppendTimes(entry.players[category], player, n)]]

RECURSIVE FilterPlayers(_, _, _, _, _)
\* the loop over the players j..Len(player_list) of the category c
FilterPlayers(acc, team_info, c, j, question) ==
    LET player_list == team_info.players[Categories[c]]
    IN IF j > Len(player_list) THEN acc
       ELSE FilterPlayers(FilterPlayer(acc, team_info, Categories[c], player_list[j], question),
                          team_info, c, j + 1, question)

RECURSIVE FilterCategories(_, _, _, _)
\* the loop over the categories c..Len(Categories) of the team
FilterCategories(acc, team_info, c, question) ==
    IF c > Len(Categories) THEN acc
    ELSE FilterCategories(
            IF Categories[c] \in DOMAIN team_info.players
            THEN FilterPlayers(acc, team_info, c, 1, question) ELSE acc,
            team_info, c + 1, question)

\* filter_by_position: the entries of the teams with a match; a KeyError of
\* any team leaves the function
filter_by_position(d, question) ==
    LET of_team == [t \in DOMAIN d |->
                      FilterCategories([raised |-> FALSE, entry |-> EmptyDict],
                                       d[t], 1, question)]
    IN IF \E t \in DOMAIN d : of_team[t].raised
       THEN [raised |-> TRUE, value |-> EmptyDict]
       ELSE [raised |-> FALSE,
             value |-> [t \in {x \in DOMAIN d : of_team[x].entry # EmptyDict} |->
                          of_team[t].entry]]

\* the roster entries of a list of the bounded set: the j-th has the name j
PlayerLists ==
    UNION {{[j \in 1..n |-> [name |-> j, position |-> f[j]]] : f \in [1..n -> PositionTexts]} :
           n \in 0..MaxRoster}

\* the team records handed to the filter: ACN with any two lists, and with it
\* or not AKP with a pitcher alone
FilterInputs ==
    LET acn == {[team_info |-> [name |-> "ACN"],
                 players |-> [coaches |-> c, pitchers |-> p]] :
                   c \in PlayerLists, p \in PlayerLists}
        akp == [team_info |-> [name |-> "AKP"],
                players |-> [pitchers |-> <<[name |-> 1, position |-> {"pitcher"}]>>]]
    IN {[ACN |-> r] : r \in acn} \cup {[ACN |-> r, AKP |-> akp] : r \in acn}

\* query: the question holds a position keyword, filter_by_position is called
query_filter_by_position ==
    /\ filtered = EmptyDict
    /\ \E question \in PositionQuestions :
          filtered' = [question |-> question,
                       result |-> filter_by_position(filter_data, question)]
    /\ UNCHANGED <<clock, loadVars, statVars, sortVars, h2hVars, fetchVars, llmVars, other,
                   tableVars, recent_games, filter_data, rosterVars, scraperVars, searchVars>>

----------------------------------------------------------------------------
(* The roster extractors: CPBLScraper._parse_category and
   TeamScraper._parse_player_section *)

\* a player item: whether it has the div of class cont, and for each of name,
\* number, position and photo the text of its element, "" for an element
\* without text, "absent" for no element
PlayerItems ==
    [cont : {TRUE}, name : {"absent", "", "N"}, number : {"absent", "", "7"},
     position : {"absent", "", "P"}, photo : {"absent", "url"}]
    \cup [cont : {FALSE}, name : {"absent"}, number : {"absent"}, position : {"absent"},
          photo : {"absent"}]

ItemLists == UNION {[1..n -> PlayerItems] : n \in 0..MaxRoster}

\* .text.strip() of the element where it is found, else the '' the dict starts with
TextOr(v) == IF v = "absent" THEN "" ELSE v

\* _extract_player_data: None without the cont div and when every value of
\* player_data is empty; 'photo' is a key only when the image has a url
extract_player_data(player_item) ==
    LET base == [name |-> TextOr(player_item.name),
                 number |-> TextOr(player_item.number),
                 position |-> TextOr(player_item.position)]
        player_data == IF player_item.photo = "absent" THEN base
                       ELSE Put(base, "photo", player_item.photo)
    IN IF ~player_item.cont THEN None
       ELSE IF \E k \in DOMAIN player_data : player_data[k] # "" THEN player_data
       ELSE None

RECURSIVE parse_category(_, _)
\* _parse_category: the loop over the items i..Len(list), each item that
\* gives player data appended
parse_category(list, i) ==
    IF i > Len(list) THEN <<>>
    ELSE LET player_data == extract_player_data(list[i])
         IN IF player_data # None
            THEN <<player_data>> \o parse_category(list, i + 1)
            ELSE parse_category(list, i + 1)

RECURSIVE parse_player_section(_, _)
\* TeamScraper._parse_player_section: .text of a missing name, number or pos
\* div raises, which ends the loop in the handler around it with the players
\* read so far; every other item is appended as it is
parse_player_section(list, i) ==
    IF i > Len(list) THEN <<>>
    ELSE IF "absent" \in {list[i].name, list[i].number, list[i].position} THEN <<>>
    ELSE LET base == [name |-> list[i].name, number |-> list[i].number,
                      position |-> list[i].position]
             player_data == IF list[i].photo = "absent" THEN base
                            ELSE Put(base, "image", list[i].photo)
         IN <<player_data>> \o parse_player_section(list, i + 1)

\* fetch_team_data reads a roster section of the page
parse_category_call ==
    /\ roster = EmptyDict
    /\ roster' = [extractor |-> "CPBLScraper", players |-> parse_category(player_items, 1)]
    /\ UNCHANGED <<clock, loadVars, statVars, sortVars, h2hVars, fetchVars, llmVars, other,
                   tableVars, recent_games, filterVars, player_items, scraperVars, searchVars>>

\* get_team_data of TeamScraper reads a roster section of the page
parse_player_section_call ==
    /\ roster = EmptyDict
    /\ roster' = [extractor |-> "TeamScraper", players |-> parse_player_section(player_items, 1)]
    /\ UNCHANGED <<clock, loadVars, statVars, sortVars, h2hVars, fetchVars, llmVars, other,
                   tableVars, recent_games, filterVars, player_items, scraperVars, searchVars>>

----------------------------------------------------------------------------
(* The one CPBLScraper of _init_scraper (st.cache_resource), called by the
   script runs of two sessions, each in its own thread *)

Sessions == {1, 2}

\* the other session
Peer(s) == 3 - s

\* fetch_team_data(team_id) up to its request: the team code goes to the field
\* of the scraper.  The threads can change places from here on
fetch_team_data_enter(s) ==
    /\ sessions[s].pc = "idle"
    /\ \E team_id \in Teams :
          /\ current_team_code' = team_id
          /\ sessions' = [sessions EXCEPT
                ![s] = [pc |-> "request", team_id |-> team_id,
                        overlap |-> sessions[Peer(s)].pc = "request"],
                ![Peer(s)] = IF sessions[Peer(s)].pc = "request"
                             THEN [sessions[Peer(s)] EXCEPT !.overlap = TRUE]
                             ELSE sessions[Peer(s)]]
    /\ UNCHANGED <<clock, loadVars, statVars, sortVars, h2hVars, fetchVars, llmVars, other,
                   tableVars, recent_games, filterVars, rosterVars, searchVars>>

\* the rest of fetch_team_data: the response, and for a 2xx status
\* _parse_team_info, which reads the field of the scraper as it is now
fetch_team_data_return(s) ==
    /\ sessions[s].pc = "request"
    /\ \E http \in HttpOutcomes :
          sessions' = [sessions EXCEPT
             ![s] = [pc |-> "done", team_id |-> sessions[s].team_id,
                     overlap |-> sessions[s].overlap,
                     raised |-> http # "ok",
                     code_read |-> IF http = "ok" THEN current_team_code ELSE NoId,
                     team_info |-> IF http = "ok"
                                   THEN parse_team_info(current_team_code,
                                                        <<sessions[s].team_id, site>>)
                                   ELSE EmptyDict]]
    /\ UNCHANGED <<clock, loadVars, statVars, sortVars, h2hVars, fetchVars, llmVars, other,
                   tableVars, recent_games, filterVars, rosterVars, current_team_code, searchVars>>

----------------------------------------------------------------------------
(* player_search: the search button and st.session_state *)

\* session_state as the first run of player_search sets it
NoSearch == [search_performed |-> FALSE, search_result |-> None, query |-> <<>>]

NothingShown == [kind |-> "nothing"]

\* what get_cached_stats returns for the selection: the result of a request
\* for exactly this query (of this run or cached)
SearchHttp == StatHttp

\* one run of player_search with the selection q of the five selectboxes; the
\* button '搜尋' was clicked or not.  The result shown is the one of this
\* search when search_performed is unset, otherwise search_result
player_search_run ==
    \E q \in Queries, clicked \in BOOLEAN, http \in SearchHttp :
       /\ (session_state.search_performed \/ ~clicked) => http.kind = "conn_error"
       /\ IF clicked \/ session_state.search_performed
          THEN LET searched == ~session_state.search_performed
                   result == IF searched THEN fetch_player_stats(q, http, clock)
                             ELSE session_state.search_result
                   of_query == IF searched THEN q ELSE session_state.query
               IN /\ session_state' =
                        [search_performed |-> result.success,
                         search_result |-> result,
                         query |-> of_query]
                  /\ display' = [kind |-> player_search_view(q[2], result).kind,
                                 selection |-> q,
                                 result_of |-> of_query]
          ELSE /\ display' = NothingShown
               /\ UNCHANGED session_state
       /\ UNCHANGED <<clock, loadVars, statVars, sortVars, h2hVars, fetchVars, llmVars, other,
                      tableVars, recent_games, filterVars, rosterVars, scraperVars>>

\* the button '重新搜尋', shown while search_performed is set: the state is
\* cleared and the page runs again, with no button clicked
player_search_reset ==
    /\ session_state.search_performed
    /\ session_state' = NoSearch
    /\ display' = NothingShown
    /\ UNCHANGED <<clock, loadVars, statVars, sortVars, h2hVars, fetchVars, llmVars, other,
                   tableVars, recent_games, filterVars, rosterVars, scraperVars>>

----------------------------------------------------------------------------
(* The environment *)

\* time passes: between script runs, and between the load of the constructor and
\* the load of the button (a fetch cycle itself is short against the step)
Advance ==
    /\ pc \in {"idle", "ret"}
    /\ clock + Tick <= MaxClock
    /\ clock' = clock + Tick
    /\ UNCHANGED <<loadVars, statVars, extVars>>

\* the remote site publishes new content
SiteUpdate ==
    /\ pc = "idle"
    /\ site < MaxSite
    /\ site' = site + 1
    /\ UNCHANGED <<clock, data_path, persisted, data, pc, idx, trigger, outcome, prev, calls, statVars, extVars>>

----------------------------------------------------------------------------

\* what the first script run may find on disk: nothing, or a file left behind by
\* an interrupted write; valid snapshots are the ones the fetch cycles write
InitFiles == {NoFile, BadJsonFile(0), BadUtf8File(0)}

\* no search made, no page fetched, no question asked, no second session
NoView == [kind |-> "none", position |-> "none", rows |-> <<>>]

InitSortIdle == frame = [position |-> "none", rows |-> <<>>] /\ shown = EmptyDict

InitH2hIdle == games = <<>> /\ head_to_head = [http |-> "none", value |-> EmptyDict]

InitFetchIdle == debug = EmptyDict /\ attempt = EmptyDict

InitLlmIdle == kb = EmptyDict /\ asked = EmptyDict /\ reply = [kind |-> "none", team |-> "none", listed |-> <<>>]

InitOtherIdle == other = [pc |-> "none", data |-> EmptyDict, file |-> NoFile]

InitTableIdle == table = <<>> /\ standings = NotFetched /\ venue_stats = NotFetched

InitFilterIdle == filter_data = EmptyDict /\ filtered = EmptyDict

InitRosterIdle == player_items = <<>> /\ roster = EmptyDict

NoCall == [pc |-> "idle"]

InitSearchIdle == session_state = NoSearch /\ display = NothingShown

InitScraperIdle == current_team_code = NoId /\ sessions = [s \in Sessions |-> NoCall]

InitMoreIdle ==
    /\ InitTableIdle /\ recent_games = NotFetched /\ InitFilterIdle /\ InitRosterIdle
    /\ InitScraperIdle /\ InitSearchIdle

Init ==
    /\ clock = 0
    /\ site = 1
    /\ data_path \in InitFiles
    /\ persisted = EmptyDict
    /\ data = EmptyDict
    /\ pc = "idle"
    /\ idx = 1
    /\ trigger = "init"
    /\ outcome = "none"
    /\ prev = EmptyDict
    /\ calls = <<>>
    /\ cache = EmptyDict
    /\ variant = BaseQuery
    /\ sent = EmptyDict
    /\ last = EmptyDict
    /\ view = NoView
    /\ InitSortIdle /\ InitH2hIdle /\ InitFetchIdle /\ InitLlmIdle /\ InitOtherIdle /\ InitMoreIdle

Next ==
    \/ Rerun
    \/ load_data_start
    \/ load_data_fetch_team
    \/ load_data_head_to_head
    \/ load_data_save
    \/ main_page
    \/ Advance
    \/ SiteUpdate

Spec == Init /\ [][Next]_vars

NextStats ==
    \/ get_cached_stats
    \/ Advance

\* a session of the statistics page: it asks the base query and one other query
InitStats ==
    /\ clock = 0
    /\ site = 1
    /\ data_path = NoFile
    /\ persisted = EmptyDict
    /\ data = EmptyDict
    /\ pc = "idle"
    /\ idx = 1
    /\ trigger = "init"
    /\ outcome = "none"
    /\ prev = EmptyDict
    /\ calls = <<>>
    /\ cache = EmptyDict
    /\ variant \in Queries \ {BaseQuery}
    /\ sent = EmptyDict
    /\ last = EmptyDict
    /\ view = NoView
    /\ InitSortIdle /\ InitH2hIdle /\ InitFetchIdle /\ InitLlmIdle /\ InitOtherIdle /\ InitMoreIdle

SpecStats == InitStats /\ [][NextStats]_vars

\* the other specifications start with no snapshot, no script run and no search
InitLoadIdle ==
    /\ clock = 0
    /\ site = 1
    /\ data_path = NoFile
    /\ persisted = EmptyDict
    /\ data = EmptyDict
    /\ pc = "idle"
    /\ idx = 1
    /\ trigger = "init"
    /\ outcome = "none"
    /\ prev = EmptyDict
    /\ calls = <<>>

InitStatIdle ==
    /\ cache = EmptyDict
    /\ variant = BaseQuery
    /\ sent = EmptyDict
    /\ last = EmptyDict
    /\ view = NoView

\* the sort of player_search, applied to each frame of the bounded set
InitSort ==
    /\ InitLoadIdle /\ InitStatIdle
    /\ frame \in Frames
    /\ shown = EmptyDict
    /\ InitH2hIdle /\ InitFetchIdle /\ InitLlmIdle /\ InitOtherIdle /\ InitMoreIdle

NextSort == player_search_sort

SpecSort == InitSort /\ [][NextSort]_vars

\* calls of fetch_team_data while the site changes
InitFetch ==
    /\ InitLoadIdle /\ InitStatIdle /\ InitSortIdle /\ InitH2hIdle
    /\ debug = EmptyDict
    /\ attempt = EmptyDict
    /\ InitLlmIdle /\ InitOtherIdle /\ InitMoreIdle

NextFetch ==
    \/ fetch_team_data_call
    \/ SiteUpdate

SpecFetch == InitFetch /\ [][NextFetch]_vars

\* the assistant, asked about each dataset of the bounded set
InitAssistant ==
    /\ InitLoadIdle /\ InitStatIdle /\ InitSortIdle /\ InitH2hIdle /\ InitFetchIdle
    /\ kb \in LoadedDatasets
    /\ asked = EmptyDict
    /\ reply = [kind |-> "none", team |-> "none", listed |-> <<>>]
    /\ InitOtherIdle /\ InitMoreIdle

NextAssistant ==
    \/ query_app
    \/ query_baseball_main

SpecAssistant == InitAssistant /\ [][NextAssistant]_vars

\* two sessions: one is at the save of its fetch cycle, the other runs the
\* script up to the start of its own fetch cycle
InitShared ==
    /\ InitLoadIdle /\ InitStatIdle /\ InitSortIdle /\ InitH2hIdle /\ InitFetchIdle
    /\ InitLlmIdle /\ InitMoreIdle
    /\ other \in {[pc |-> "save", data |-> d, file |-> NoFile] : d \in OtherDatasets}

NextShared ==
    \/ Rerun
    \/ load_data_start
    \/ main_page
    \/ Advance
    \/ other_save_open
    \/ other_save_write
    \/ other_save_close

SpecShared == InitShared /\ [][NextShared]_vars

\* fetch_head_to_head, applied to each schedule page of the bounded set
InitH2h ==
    /\ InitLoadIdle /\ InitStatIdle /\ InitSortIdle
    /\ games \in UNION {[1..n -> GameElements] : n \in 0..MaxGames}
    /\ head_to_head = [http |-> "none", value |-> EmptyDict]
    /\ InitFetchIdle /\ InitLlmIdle /\ InitOtherIdle /\ InitMoreIdle

NextH2h == fetch_head_to_head_page

SpecH2h == InitH2h /\ [][NextH2h]_vars

\* fetch_standings and fetch_venue_stats, applied to each table of the bounded set
InitTables ==
    /\ InitLoadIdle /\ InitStatIdle /\ InitSortIdle /\ InitH2hIdle /\ InitFetchIdle
    /\ InitLlmIdle /\ InitOtherIdle
    /\ table \in Tables
    /\ standings = NotFetched
    /\ venue_stats = NotFetched
    /\ recent_games = NotFetched
    /\ InitFilterIdle /\ InitRosterIdle
    /\ InitScraperIdle /\ InitSearchIdle

NextTables ==
    \/ fetch_standings
    \/ fetch_venue_stats

SpecTables == InitTables /\ [][NextTables]_vars

\* fetch_recent_games and fetch_head_to_head, applied to each schedule page of
\* the bounded set
InitSchedule ==
    /\ InitLoadIdle /\ InitStatIdle /\ InitSortIdle
    /\ games \in SchedulePages
    /\ head_to_head = [http |-> "none", value |-> EmptyDict]
    /\ InitFetchIdle /\ InitLlmIdle /\ InitOtherIdle /\ InitMoreIdle

NextSchedule ==
    \/ fetch_recent_games
    \/ fetch_head_to_head_page

SpecSchedule == InitSchedule /\ [][NextSchedule]_vars

\* filter_by_position, applied to each input of the bounded set
InitFilter ==
    /\ InitLoadIdle /\ InitStatIdle /\ InitSortIdle /\ InitH2hIdle /\ InitFetchIdle
    /\ InitLlmIdle /\ InitOtherIdle
    /\ InitTableIdle /\ recent_games = NotFetched
    /\ filter_data \in FilterInputs
    /\ filtered = EmptyDict
    /\ InitRosterIdle
    /\ InitScraperIdle /\ InitSearchIdle

NextFilter == query_filter_by_position

SpecFilter == InitFilter /\ [][NextFilter]_vars

\* the two roster extractors, applied to each list of player items of the
\* bounded set
InitRoster ==
    /\ InitLoadIdle /\ InitStatIdle /\ InitSortIdle /\ InitH2hIdle /\ InitFetchIdle
    /\ InitLlmIdle /\ InitOtherIdle
    /\ InitTableIdle /\ recent_games = NotFetched /\ InitFilterIdle
    /\ player_items \in ItemLists
    /\ roster = EmptyDict
    /\ InitScraperIdle /\ InitSearchIdle

NextRoster ==
    \/ parse_category_call
    \/ parse_player_section_call

SpecRoster == InitRoster /\ [][NextRoster]_vars

\* two sessions calling fetch_team_data on the scraper they share
InitRace ==
    /\ InitLoadIdle /\ InitStatIdle /\ InitSortIdle /\ InitH2hIdle /\ InitFetchIdle
    /\ InitLlmIdle /\ InitOtherIdle
    /\ InitTableIdle /\ recent_games = NotFetched /\ InitFilterIdle /\ InitRosterIdle
    /\ current_team_code = NoId
    /\ sessions = [s \in Sessions |-> NoCall]
    /\ InitSearchIdle

NextRace ==
    \/ \E s \in Sessions : fetch_team_data_enter(s)
    \/ \E s \in Sessions : fetch_team_data_return(s)

SpecRace == InitRace /\ [][NextRace]_vars

\* runs of player_search in one session
InitSearch ==
    /\ InitLoadIdle /\ InitStatIdle /\ InitSortIdle /\ InitH2hIdle /\ InitFetchIdle
    /\ InitLlmIdle /\ InitOtherIdle
    /\ InitTableIdle /\ recent_games = NotFetched /\ InitFilterIdle /\ InitRosterIdle
    /\ InitScraperIdle
    /\ session_state = NoSearch
    /\ display = NothingShown

NextSearch ==
    \/ player_search_run
    \/ player_search_reset
    \/ Advance

SpecSearch == InitSearch /\ [][NextSearch]_vars

----------------------------------------------------------------------------
(* Properties of the freshness cache (load_data) *)

\* the order of the six team codes that the fetch cycle is to follow
FixedOrder == <<"ACN", "ADD", "AJL", "AEO", "AAA", "AKP">>

\* load_data is entered with a snapshot younger than one hour that parses
FreshStart ==
    /\ pc = "load"
    /\ data_path.exists
    /\ clock - data_path.mtime < FreshnessMinutes
    /\ data_path.bytes = "json"

\* load_data is entered with no snapshot or one aged one hour or more
StaleStart ==
    /\ pc = "load"
    /\ (~data_path.exists \/ clock - data_path.mtime >= FreshnessMinutes)

\* a fetch cycle has run to its end and load_data has returned
CycleDone == pc = "ret" /\ outcome = "cycle"

TeamCalls == {i \in 1..Len(calls) : calls[i].target \in Teams}

NoTeamSucceeded == \A i \in TeamCalls : ~calls[i].ok

(* C1: a load that finds a parsable snapshot younger than one hour returns the
   dataset that was persisted, makes no remote fetch and leaves the file as it
   was; a second such load right after a first one yields the same data. *)
C1_FreshLoadReusesSnapshot ==
    [][FreshStart =>
          /\ data' = persisted
          /\ data_path' = data_path
          /\ calls' = <<>>
          /\ pc' = "ret"
          /\ outcome' = "fresh"
          /\ (trigger = "button" /\ outcome = "fresh" => data' = data)]_vars

C1_Witness ==
    /\ pc = "ret"
    /\ trigger = "button"
    /\ outcome = "fresh"
    /\ calls = <<>>
    /\ Teams \subseteq DOMAIN data
    /\ "head_to_head" \in DOMAIN data
    /\ clock - data_path.mtime = Tick

(* C2: a load that finds no snapshot, or one aged one hour or more, fetches the
   six team codes once each in the order ACN, ADD, AJL, AEO, AAA, AKP, one
   after the other, and then saves; when all six fetches succeeded, all six
   codes are in the dataset and the snapshot file holds that dataset. *)
C2_StaleLoadRunsFullCycle ==
    /\ [][StaleStart => pc' = "teams" /\ idx' = 1 /\ calls' = <<>>]_vars
    /\ [](pc \in {"teams", "h2h", "save"} =>
            /\ Len(calls) <= Len(FixedOrder) + 1
            /\ \A i \in 1..Len(calls) :
                  i <= Len(FixedOrder) => calls[i].target = FixedOrder[i])
    /\ [](CycleDone =>
            /\ Len(calls) = Len(FixedOrder) + 1
            /\ \A i \in 1..Len(FixedOrder) : calls[i].target = FixedOrder[i]
            /\ ((\A i \in 1..Len(FixedOrder) : calls[i].ok) =>
                   /\ \A i \in 1..Len(FixedOrder) : FixedOrder[i] \in DOMAIN data
                   /\ data_path.exists
                   /\ ReadJson(data_path) = [status |-> "ok", value |-> data]))

C2_Witness ==
    /\ CycleDone
    /\ \A i \in 1..Len(FixedOrder) : calls[i].ok
    /\ data_path.exists
    /\ data_path.mtime = FreshnessMinutes
    /\ clock = data_path.mtime
    /\ data["AKP"].page[2] = MaxSite

(* C3: whenever a load finds a snapshot file that fails to parse, load_data
   deletes the file and runs the fetch cycle, and does not raise. *)
C3_CorruptSnapshotRecovered ==
    [][(pc = "load"
          /\ data_path.exists
          /\ clock - data_path.mtime < FreshnessMinutes
          /\ ReadJson(data_path).status # "ok")
       => (outcome' # "raised" /\ ~data_path'.exists /\ pc' = "teams")]_vars

(* C4: a fetch cycle in which no team fetch succeeded does not write the
   snapshot file: a snapshot that exists is left in place with its content,
   whatever the head-to-head fetch returned. *)
C4_AllFailedKeepsSnapshot ==
    [][(pc = "save" /\ data_path.exists /\ data_path.bytes = "json" /\ NoTeamSucceeded)
       => data_path' = data_path]_vars

(* C5: in a fetch cycle a team whose fetch failed is absent from the dataset,
   a team whose fetch succeeded is present with the record fetched, and at the
   end of the cycle every one of the six teams has been fetched, whatever
   failed before it. *)
C5_FailuresAreIsolated ==
    /\ (pc \in {"teams", "h2h", "save"} \/ CycleDone) =>
          \A i \in TeamCalls :
             IF calls[i].ok
             THEN calls[i].target \in DOMAIN data /\ data[calls[i].target] = calls[i].value
             ELSE calls[i].target \notin DOMAIN data
    /\ CycleDone => \A t \in Teams : \E i \in TeamCalls : calls[i].target = t

C5_Witness ==
    /\ CycleDone
    /\ ~calls[1].ok
    /\ ~calls[3].ok
    /\ calls[2].ok
    /\ calls[6].ok
    /\ DOMAIN data = {"ADD", "AEO", "AAA", "AKP"}

(* C9: the reload button runs a full fetch cycle even when the snapshot is
   younger than one hour. *)
C9_ReloadBypassesCache ==
    [][(FreshStart /\ trigger = "button") => pc' = "teams"]_vars

(* C10: after a fetch cycle the dataset holds exactly what the fetches of that
   cycle returned: the record of every team fetched successfully, head_to_head
   when that fetch returned games, and nothing else. *)
C10_CycleReplacesDataset ==
    CycleDone =>
       /\ DOMAIN data = {calls[i].target : i \in {j \in 1..Len(calls) : calls[j].ok}}
       /\ \A i \in 1..Len(calls) : calls[i].ok => data[calls[i].target] = calls[i].value

C10_Witness ==
    /\ CycleDone
    /\ trigger = "button"
    /\ site = MaxSite
    /\ DOMAIN prev = Teams \cup {"head_to_head"}
    /\ prev["ACN"].page[2] < MaxSite
    /\ DOMAIN data = {"ACN"}
    /\ data["ACN"].page[2] = MaxSite

(* C14: the established year a fetch places in a team record is the value of
   the static table for the team code, whatever the page holds: after a fetch
   cycle every team record of the dataset carries it, and when all six fetches
   succeeded the record of AKP carries 2023. *)
C14_EstablishedYearFromTable ==
    CycleDone =>
       /\ \A t \in Teams \cap DOMAIN data :
             /\ data[t].team_info # None
             /\ "established" \in DOMAIN data[t].team_info
             /\ data[t].team_info.established = team_established_years[t]
       /\ (\A i \in 1..Len(FixedOrder) : calls[i].ok) =>
             /\ "AKP" \in DOMAIN data
             /\ data["AKP"].team_info # None
             /\ data["AKP"].team_info.established = "2023"

(* C20: after a load that reused a fresh snapshot, every team record of the
   dataset carries the established year of the static table for its code,
   whatever the persisted copy holds. *)
C20_FreshLoadReappliesEstablishedYear ==
    (pc = "ret" /\ outcome = "fresh") =>
       \A t \in Teams \cap DOMAIN data :
          /\ data[t].team_info # None
          /\ "established" \in DOMAIN data[t].team_info
          /\ data[t].team_info.established = team_established_years[t]

(* C21: team-metadata extraction returns an empty record, not a missing value,
   for a page without the brief section, and for a page with it a record whose
   home and coach are the descs of the items labelled so, in whatever order
   the items appear: so it is for every team record a fetch cycle stored. *)
C21_TeamInfoByLabel ==
    CycleDone =>
       \A t \in Teams \cap DOMAIN data :
          IF HasTeamBrief(data[t].page)
          THEN /\ data[t].team_info # None
               /\ {"home", "coach"} \subseteq DOMAIN data[t].team_info
               /\ data[t].team_info.home = <<"home", data[t].page>>
               /\ data[t].team_info.coach = <<"coach", data[t].page>>
          ELSE data[t].team_info = EmptyDict

\* the keys team_analysis offers in its team selector, and that
\* _show_team_basic_info and extract_keywords go through as teams: all the
\* keys of the dataset
TeamKeys(d) == DOMAIN d

(* C28: every key of the dataset that a consumer handles as a team is one of
   the six team codes; the head_to_head key, stored in the same mapping, is
   never offered or processed as a team. *)
C28_TeamKeysAreTeamCodes ==
    pc = "ret" => TeamKeys(data) \subseteq Teams

\* the dataset the constructor handed to initialize_knowledge: self.data as it
\* was when the load of the constructor had returned.  Once the script run is
\* in the load of the button, that is the dataset this load was entered with
KnowledgeSource == IF trigger = "init" THEN data ELSE prev

(* C29: after a load_data call that replaced the dataset, at start-up or by the
   reload button, the knowledge the assistant holds is the one made from the
   dataset the coach holds now. *)
C29_KnowledgeFollowsDataset ==
    (pc = "ret" /\ outcome \in {"fresh", "cycle"} /\ Truthy(KnowledgeSource)) =>
       initialize_knowledge(KnowledgeSource) = initialize_knowledge(data)

----------------------------------------------------------------------------
(* Properties of the statistics query engine *)

Called == DOMAIN last # {}

\* a request for query q was sent less than one hour before time now
SentWithinTtl(q, now) == q \in DOMAIN sent /\ now - sent[q].at < TtlMinutes

(* C6: a call is answered without a network request only when a request for
   the identical tuple was sent less than one hour before, and it then returns
   the result of that request; a call for which no such request exists sends a
   new request; and as long as less than one hour has passed since a request
   was sent, no second request is sent for its tuple. *)
C6_CachedByExactTuple ==
    /\ [](Called =>
            IF last.hit
            THEN /\ SentWithinTtl(last.query, last.at)
                 /\ sent[last.query].result = last.result
            ELSE /\ last.query \in DOMAIN sent
                 /\ sent[last.query] = [at |-> last.at, result |-> last.result])
    /\ [][\A q \in Queries :
             SentWithinTtl(q, clock) => (q \in DOMAIN sent' /\ sent'[q] = sent[q])]_vars
    /\ [][\A q \in Queries :
             (last' # last /\ last'.query = q /\ ~SentWithinTtl(q, clock)) =>
                (~last'.hit /\ q \in DOMAIN sent' /\ sent'[q].at = clock)]_vars

C6_Witness ==
    /\ Called
    /\ last.hit
    /\ last.query = BaseQuery
    /\ variant = <<2024, "01", "A", "01", "2">>
    /\ DOMAIN sent = {BaseQuery, variant}
    /\ last.at = sent[BaseQuery].at + Tick
    /\ sent[variant].at = sent[BaseQuery].at
    /\ sent[variant].result # sent[BaseQuery].result

(* C7: fetch_player_stats always returns a result; for a failed request the
   result has success false, an error message that names the network failure,
   a timestamp, and no data field. *)
C7_NetworkFailureIsReported ==
    (Called /\ ~last.hit) =>
       LET r == last.result IN
       /\ "success" \in DOMAIN r
       /\ last.http # "ok" =>
             /\ r.success = FALSE
             /\ "error" \in DOMAIN r
             /\ r.error = <<"network_request_error", last.http>>
             /\ "timestamp" \in DOMAIN r
             /\ r.timestamp = last.at
             /\ "data" \notin DOMAIN r

C7_Witness ==
    /\ Called
    /\ ~last.hit
    /\ last.http = "http_error"
    /\ ~last.result.success
    /\ last.query # BaseQuery
    /\ BaseQuery \in DOMAIN sent
    /\ ~sent[BaseQuery].result.success
    /\ sent[BaseQuery].result.error = <<"network_request_error", "timeout">>

(* C8: a reachable endpoint whose response lacks the record table gives
   success false, and a result with success true has a non-empty data
   sequence. *)
C8_MalformedResponseIsAnError ==
    (Called /\ ~last.hit) =>
       LET r == last.result IN
       /\ (last.http = "ok" /\ ~last.table) => ("success" \in DOMAIN r /\ r.success = FALSE)
       /\ ("success" \in DOMAIN r /\ r.success) => Len(r.data) > 0

(* C11: a pitcher query (position '02') whose response holds N well-formed rows
   gives success true and N rows; each row carries the pitcher fields, and the
   page shows the frame of those rows, ready for the filter by minimum innings
   pitched, and not an error. *)
C11_PitcherRowsCarryPitcherFields ==
    (Called /\ ~last.hit /\ last.query[2] = "02" /\ last.http = "ok" /\ last.table) =>
       /\ last.result.success
       /\ \A i \in 1..Len(last.result.data) :
             (PitcherColumns \cup {"whip"}) \subseteq last.result.data[i].stats
       /\ Len(last.result.data) > 0 =>
             /\ view.kind = "frame"
             /\ Len(view.rows) = Len(last.result.data)
             /\ \A i \in 1..Len(view.rows) : "ip" \in view.rows[i].columns

----------------------------------------------------------------------------
(* Properties of the sort of player_search *)

Sorted == DOMAIN shown # {}

(* C12: sorting by the earned-run average or by WHIP orders the rows
   ascending, sorting by any other offered field of either branch orders them
   descending; the rows shown are the rows of the frame, ordered by the one
   chosen field. *)
C12_SortDirection ==
    Sorted =>
       LET r == shown.rows
           by == shown.sort_by
       IN /\ Len(r) = Len(frame.rows)
          /\ \E p \in Perms(Len(r)) : \A i \in 1..Len(r) : r[i] = frame.rows[p[i]]
          /\ \A i \in 1..(Len(r) - 1) :
                IF by \in {"era", "whip"}
                THEN r[i][by] <= r[i + 1][by]
                ELSE r[i][by] >= r[i + 1][by]

C12_Witness ==
    /\ Sorted
    /\ frame.position = "02"
    /\ shown.sort_by = "whip"
    /\ Len(shown.rows) = MaxFrame
    /\ shown.rows[1]["whip"] < shown.rows[MaxFrame]["whip"]
    /\ shown.rows[1]["era"] > shown.rows[MaxFrame]["era"]
    /\ shown.rows[1]["w"] < shown.rows[MaxFrame]["w"]

----------------------------------------------------------------------------
(* Properties of fetch_head_to_head *)

Stored(list, g) == \E j \in 1..Len(list) : list[j] = g

(* C13: a game between two known teams is stored under the key of its
   unordered pair, whichever of the two is the home team, and no two keys of
   the mapping stand for the same unordered pair. *)
C13_OneKeyPerPair ==
    head_to_head.http = "ok" =>
       LET h == head_to_head.value IN
       /\ \A k1, k2 \in DOMAIN h : {k1[1], k1[2]} = {k2[1], k2[2]} => k1 = k2
       /\ \A i \in 1..Len(games) :
             (games[i].home \in Teams /\ games[i].away \in Teams) =>
                \E k \in DOMAIN h :
                   /\ {k[1], k[2]} = {games[i].home, games[i].away}
                   /\ Stored(h[k], games[i])

C13_Witness ==
    /\ head_to_head.http = "ok"
    /\ DOMAIN head_to_head.value = {<<"ACN", "AKP">>}
    /\ Len(head_to_head.value[<<"ACN", "AKP">>]) = MaxGames
    /\ head_to_head.value[<<"ACN", "AKP">>][1].home = "AKP"
    /\ head_to_head.value[<<"ACN", "AKP">>][MaxGames].home = "ACN"

----------------------------------------------------------------------------
(* Properties of the standings page *)

\* a row of a listed team with every sub-element and readable numbers (the
\* rank div may be missing: the rank is then 0)
WellFormed(row) == row.team \in Teams /\ row.shape \in {"ok", "no_rank"}

(* C22: a malformed row of the standings page drops only that row: every
   well-formed row of the page has its team in the mapping fetch_standings
   returned, and in the mapping fetch_venue_stats returned. *)
C22_MalformedRowDropsOnlyItself ==
    \A i \in 1..Len(table) :
       WellFormed(table[i]) =>
          /\ standings.http = "ok" => table[i].team \in DOMAIN standings.value
          /\ venue_stats.http = "ok" => table[i].team \in DOMAIN venue_stats.value

----------------------------------------------------------------------------
(* Properties of the schedule page *)

\* the game elements of the page that fetch_recent_games reads into a list
Parsed(i) ==
    /\ get_team_id(games[i].home) # NoId
    /\ get_team_id(games[i].away) # NoId
    /\ int_scores(games[i].score) # <<>>

\* the games of the page that go to the list of team t
TeamGames(t) ==
    {i \in 1..Len(games) : Parsed(i) /\ t \in {games[i].home, games[i].away}}

\* the games of the page that go to the list of the pair key
PairGames(key) ==
    {i \in 1..Len(games) :
        /\ get_team_id(games[i].home) # NoId
        /\ get_team_id(games[i].away) # NoId
        /\ key \in {<<games[i].home, games[i].away>>, <<games[i].away, games[i].home>>}}

\* list holds the KeptGames newest of the games S of the page, newest first
MostRecent(list, S) ==
    /\ Len(list) = IF Cardinality(S) < KeptGames THEN Cardinality(S) ELSE KeptGames
    /\ \A j \in 1..Len(list) - 1 : list[j].date >= list[j + 1].date
    /\ \A j \in 1..Len(list) :
          Cardinality({k \in 1..Len(list) : list[k].date = list[j].date})
             <= Cardinality({i \in S : games[i].date = list[j].date})
    /\ \A i \in S :
          Cardinality({k \in S : games[k].date > games[i].date})
             = Cardinality({j \in 1..Len(list) : list[j].date > games[i].date})
          \/ \A j \in 1..Len(list) : list[j].date > games[i].date

(* C23: after fetch_recent_games and fetch_head_to_head every team's trend
   list and every pair's game list holds at most 10 entries, newest first, and
   they are the most recent of the games parsed for that team or pair. *)
C23_TenMostRecentNewestFirst ==
    /\ recent_games.http = "ok" =>
          /\ DOMAIN recent_games.value = {t \in Teams : TeamGames(t) # {}}
          /\ \A t \in DOMAIN recent_games.value :
                /\ Len(recent_games.value[t]) <= KeptGames
                /\ MostRecent(recent_games.value[t], TeamGames(t))
    /\ head_to_head.http = "ok" =>
          \A key \in DOMAIN head_to_head.value :
             /\ Len(head_to_head.value[key]) <= KeptGames
             /\ MostRecent(head_to_head.value[key], PairGames(key))

C23_Witness ==
    /\ Len(games) = MaxPage
    /\ games[1].date = 1
    /\ recent_games.http = "ok"
    /\ Len(recent_games.value["AKP"]) = KeptGames
    /\ recent_games.value["AKP"][1].date = MaxPage
    /\ recent_games.value["AKP"][KeptGames].date = MaxPage - KeptGames + 1
    /\ head_to_head.http = "ok"
    /\ Len(head_to_head.value[<<"ACN", "AKP">>]) = KeptGames
    /\ head_to_head.value[<<"ACN", "AKP">>][1].date = MaxPage

\* the entries of list with result 'W'
Wins(list) == {j \in 1..Len(list) : list[j].result = "W"}

\* the games of the page in which team t scored strictly more than the other
Won(t) ==
    {i \in TeamGames(t) :
        LET scores == int_scores(games[i].score)
        IN \/ games[i].home = t /\ scores[1] > scores[2]
           \/ games[i].away = t /\ scores[2] > scores[1]}

(* C30: in fetch_recent_games a team's entry for a game is 'W' only when the
   team scored strictly more runs than its opponent, as home and as away team
   alike: on a page that is not cut, a team has as many 'W' entries as games
   it won, and no 'W' entry carries a tied score. *)
C30_WinMeansMoreRuns ==
    recent_games.http = "ok" =>
       \A t \in DOMAIN recent_games.value :
          /\ \A j \in Wins(recent_games.value[t]) :
                recent_games.value[t][j].score[1] # recent_games.value[t][j].score[2]
          /\ Len(games) <= KeptGames =>
                Cardinality(Wins(recent_games.value[t])) = Cardinality(Won(t))

----------------------------------------------------------------------------
(* Properties of filter_by_position *)

\* the entries of list whose position holds a word of the question or a
\* synonym of one, in their order
RECURSIVE Matching(_, _)
Matching(list, question) ==
    IF list = <<>> THEN <<>>
    ELSE LET rest == Matching(SubSeq(list, 1, Len(list) - 1), question)
             player == list[Len(list)]
         IN IF \/ PositionMatches(player.position, question)
               \/ SynonymKeys(player.position, question) # {}
            THEN Append(rest, player) ELSE rest

(* C24: for a question with a position keyword filter_by_position does not
   raise and returns, for every team of its input and every roster category,
   exactly the entries whose position holds a keyword of the question or a
   synonym of one, each once, in whatever categories such entries occur. *)
C24_FilterKeepsExactlyTheMatches ==
    filtered # EmptyDict =>
       /\ ~filtered.result.raised
       /\ \A t \in DOMAIN filter_data :
             \A category \in DOMAIN filter_data[t].players :
                Get(Get(Get(filtered.result.value, t, [players |-> EmptyDict]),
                        "players", EmptyDict), category, <<>>)
                   = Matching(filter_data[t].players[category], filtered.question)

----------------------------------------------------------------------------
(* Properties of the roster extractors *)

\* the item has a name, a number, a position or a photo
HasField(item) ==
    \E v \in {item.name, item.number, item.position, item.photo} : v \notin {"absent", ""}

\* the items of the page that have a field (and the div that holds them)
Kept == {i \in 1..Len(player_items) : player_items[i].cont /\ HasField(player_items[i])}

(* C25: no roster sequence the extractor produces holds an entry whose every
   field is empty, and it holds one entry for each item that has a field, in
   the order of the page, with the name, number and position of the item
   ('' for the ones that are missing): a missing field neither removes the
   other fields of the player nor stops the extraction of the players after it. *)
C25_NoEmptyEntryNoLostPlayer ==
    roster # EmptyDict =>
       /\ \A j \in 1..Len(roster.players) :
             \E k \in DOMAIN roster.players[j] : roster.players[j][k] # ""
       /\ Len(roster.players) = Cardinality(Kept)
       /\ \A j \in 1..Len(roster.players) :
             \E i \in Kept :
                /\ Cardinality({x \in Kept : x < i}) = j - 1
                /\ roster.players[j].name = TextOr(player_items[i].name)
                /\ roster.players[j].number = TextOr(player_items[i].number)
                /\ roster.players[j].position = TextOr(player_items[i].position)

----------------------------------------------------------------------------
(* Properties of the shared scraper *)

\* session s has a record from a call that ran while the other session was
\* inside its own call for another team code
ReturnedUnderOverlap(s) ==
    /\ sessions[s].pc = "done"
    /\ ~sessions[s].raised
    /\ sessions[s].overlap
    /\ sessions[Peer(s)].pc # "idle"
    /\ sessions[Peer(s)].team_id # sessions[s].team_id

(* C26: when two sessions call fetch_team_data at the same time on the scraper
   they share, for different team codes, the established year of each
   returned record is that of the code the call was made with. *)
C26_YearOfTheCallsOwnCode ==
    \A s \in Sessions :
       ReturnedUnderOverlap(s) =>
          /\ sessions[s].code_read = sessions[s].team_id
          /\ sessions[s].team_info # None
          /\ "established" \in DOMAIN sessions[s].team_info
          /\ sessions[s].team_info.established = team_established_years[sessions[s].team_id]

----------------------------------------------------------------------------
(* Properties of the search of player_search *)

(* C27: the result player_search displays belongs to the query parameters that
   are selected: whenever a run of the page shows a result (a frame or an
   error about it), the result is the one of a search for the selection of
   this run. *)
C27_DisplayedResultIsOfSelection ==
    display # NothingShown => display.result_of = display.selection

----------------------------------------------------------------------------
(* Properties of fetch_team_data *)

Attempted == DOMAIN attempt # {}

(* C15: every call of fetch_team_data overwrites the debug file of its team
   code with the document of this attempt before it returns or raises, also
   when the fetch fails by a connection failure or a non-2xx status. *)
C15_DebugFileOfEveryAttempt ==
    Attempted =>
       /\ attempt.team \in DOMAIN debug
       /\ debug[attempt.team] = Document(attempt.team, attempt.http, attempt.version)

(* C15, amended: a call of fetch_team_data that receives a response, of a 2xx
   status or not, has overwritten the debug file of its team code with the
   document of this attempt when it returns or raises; a call whose request
   fails without a response raises and leaves every debug file as it was. *)
C15_DebugFileOfEveryResponse ==
    /\ [](Attempted =>
            /\ attempt.raised = (attempt.http # "ok")
            /\ attempt.http \in {"ok", "http_error"} =>
                  /\ attempt.team \in DOMAIN debug
                  /\ debug[attempt.team] =
                        Document(attempt.team, attempt.http, attempt.version))
    /\ [][(attempt' # attempt /\ attempt'.http = "conn_error") => debug' = debug]_vars

C15_Witness ==
    /\ Attempted
    /\ attempt.team = "AKP"
    /\ attempt.http = "http_error"
    /\ attempt.raised
    /\ attempt.version = MaxSite
    /\ debug["AKP"] = Document("AKP", "http_error", MaxSite)
    /\ "ACN" \in DOMAIN debug
    /\ debug["ACN"] = Document("ACN", "ok", 1)

----------------------------------------------------------------------------
(* Properties of the assistant *)

Asked == DOMAIN asked # {}

\* the question holds no team name and no player name (and is not a greeting)
NoEntity == ~asked.question.greet /\ asked.question.team = "none" /\ ~asked.question.player

\* the fixed message of each version for a question without a match
NoMatchMessage == IF asked.version = "app" THEN "ask_team" ELSE "fallback"

(* C16: a question in which no team name and no player name is found is
   answered with the fixed message that asks for more, whatever dataset is
   loaded, with the head_to_head key or without. *)
C16_NoEntityAsksForMore ==
    (Asked /\ NoEntity) => reply.kind = NoMatchMessage

(* C17: query never raises: for every question and every loaded dataset it
   returns a string, and a question without a match gets a normal answer, not
   an error message. *)
C17_QueryNeverFails ==
    Asked =>
       /\ reply.kind # "raise"
       /\ NoEntity => reply.kind # "error"

(* C18: a question that names the known player and holds an identity cue is
   answered with one fact string about that player (team, position, number). *)
C18_PlayerFact ==
    (/\ Asked
     /\ ~asked.question.greet
     /\ asked.question.player
     /\ asked.question.cue
     /\ asked.question.team = "none"
     /\ \E t \in AskTeams \cap DOMAIN kb :
           /\ kb[t].team_info = [name |-> t, home |-> "H", coach |-> "C"]
           /\ kb[t].players = [pitchers |-> <<KnownPlayer>>])
    => reply.kind = "player_fact"

----------------------------------------------------------------------------
(* Properties of the snapshot file under two sessions *)

OtherIsWriting == other.pc \in {"writing", "closing"}

(* C19: the snapshot file is written atomically: a load that runs while
   another session is writing the file does not read a partially written
   document, and does not delete the file that is being persisted. *)
C19_SnapshotWrittenAtomically ==
    [][(pc = "load" /\ pc' # "load" /\ OtherIsWriting /\ IsFresh(data_path, clock)) =>
          /\ ReadJson(data_path).status = "ok"
          /\ data_path'.exists]_vars

====
